---------------------------- MODULE Spec2Model ----------------------------
(* A model of jingo (src/jingo/__init__.py): the adapter that renders     *)
(* Jinja2 templates from Django.  Four parts of the module are modelled:  *)
(*   - render_to_string and its per-request context-processor memo,       *)
(*   - Template.render and the flattening of a Django Context,            *)
(*   - load_helpers and the Environment entry points that call it,        *)
(*   - Register.cached_inclusion_tag and its cache key.                   *)
(* Each part has its own specification; the variables of the other parts  *)
(* stay at their initial values.                                          *)
EXTENDS Integers, Sequences, FiniteSets, TLC

VARIABLES
    \* ---- render_to_string --------------------------------------------
    processors,      \* get_standard_processors(): what each processor returns
    jingo_context,   \* request._jingo_context, per request
    invoked,         \* per request and processor: how often it was called
    renders,         \* per request: render_to_string calls that returned
    lastRender,      \* the last render_to_string call and what it rendered
    \* ---- Template.render ---------------------------------------------
    rendered,        \* the last Template.render call and its context_dict
    \* ---- load_helpers ------------------------------------------------
    INSTALLED_APPS,  \* settings.INSTALLED_APPS: the kind of each application
    threads,         \* the threads that serve requests
    helpers_loaded,  \* the module global _helpers_loaded
    pc,              \* per thread: where it is in get_template/load_helpers
    idx,             \* per thread: the application its loop is at
    sys_modules,     \* the helpers modules that are imported
    importLog,       \* the helpers modules whose body was run, in order
    runs,            \* how often the import sequence was begun
    entries,         \* calls to get_template/from_string so far
    returned,        \* load_helpers calls that have returned or raised
    \* ---- cached_inclusion_tag ----------------------------------------
    cache,           \* django.core.cache.cache: key -> entry
    lastCall,        \* the last call of a wrapper
    wrapperCalls     \* wrapper calls so far

renderVars == <<processors, jingo_context, invoked, renders, lastRender>>
templateVars == <<rendered>>
loaderVars == <<INSTALLED_APPS, threads, helpers_loaded, pc, idx, sys_modules,
                importLog, runs, entries, returned>>
cacheVars == <<cache, lastCall, wrapperCalls>>
vars == <<renderVars, templateVars, loaderVars, cacheVars>>

--------------------------------------------------------------------------
(* Bounds *)

MaxRenders == 2
NumProcessors == 2
MaxLayers == 2
NumApps == 2
MaxEntries == 3
MaxArgs == 2
MaxWrapperCalls == 2

--------------------------------------------------------------------------
(* Python dicts: functions from a finite set of keys *)

Keys == {"x", "y"}
Vals == {1, 2}
Dicts == UNION {[D -> Vals] : D \in SUBSET Keys}
EmptyDict == [k \in {} |-> 1]

\* d.update(e): every key of e is set in d, overwriting
DictUpdate(d, e) ==
    [k \in DOMAIN d \cup DOMAIN e |-> IF k \in DOMAIN e THEN e[k] ELSE d[k]]

\* a loop of updates over a list of dicts, starting from acc
RECURSIVE UpdateAll(_, _)
UpdateAll(acc, ds) ==
    IF ds = <<>> THEN acc
    ELSE UpdateAll(DictUpdate(acc, Head(ds)), Tail(ds))

Reverse(s) == [i \in 1..Len(s) |-> s[Len(s) + 1 - i]]

RECURSIVE SeqsUpTo(_, _)
SeqsUpTo(S, n) ==
    IF n = 0 THEN {<<>>}
    ELSE LET shorter == SeqsUpTo(S, n - 1)
         IN shorter \cup {Append(s, e) : s \in shorter, e \in S}

--------------------------------------------------------------------------
(* Template.render *)

\* A context is a django Context (a list of dicts) or a plain dict.
LayeredContexts == {[isContext |-> TRUE, dicts |-> ds, dict |-> EmptyDict] :
                        ds \in SeqsUpTo(Dicts, MaxLayers)}
PlainContexts == {[isContext |-> FALSE, dicts |-> <<>>, dict |-> d] : d \in Dicts}
NoContext == [isContext |-> FALSE, dicts |-> <<>>, dict |-> EmptyDict]

FlattenFirstWins(context) ==
    IF context.isContext
    THEN UpdateAll(EmptyDict, Reverse(context.dicts))
    ELSE DictUpdate(EmptyDict, context.dict)

\* context_dict of Template.render
Flatten(context) ==
    IF context.isContext
    THEN UpdateAll(EmptyDict, context.dicts)
    ELSE DictUpdate(EmptyDict, context.dict)

TemplateRender(context) ==
    /\ rendered' = [called |-> TRUE, context |-> context,
                    context_dict |-> Flatten(context)]
    /\ UNCHANGED <<renderVars, loaderVars, cacheVars>>

--------------------------------------------------------------------------
(* render_to_string *)

Requests == {"r1", "r2"}
Procs == 1..NumProcessors

NoAttr == [has |-> FALSE, dict |-> EmptyDict]

NeverMemoized(request) == FALSE

\* hasattr(request, '_jingo_context')
HasJingoContext(request) == jingo_context[request].has

\* the loop over get_standard_processors()
ProcessorOutput == UpdateAll(EmptyDict, [p \in Procs |-> processors[p]])

ExplicitWins(context, memo) ==
    DictUpdate(memo, IF context.given THEN context.dict ELSE EmptyDict)

\* ctx of get_context
GetContextResult(context, memo) ==
    DictUpdate(IF context.given THEN context.dict ELSE EmptyDict, memo)

ExplicitContexts == {[given |-> FALSE, dict |-> EmptyDict]}
                        \cup {[given |-> TRUE, dict |-> d] : d \in Dicts}

NoRender == [called |-> FALSE, request |-> "r1",
             context |-> [given |-> FALSE, dict |-> EmptyDict],
             context_dict |-> EmptyDict]

\* render_to_string returns the rendered text
RenderToString(request, context) ==
    /\ renders[request] < MaxRenders
    /\ LET memo == IF HasJingoContext(request)
                   THEN jingo_context[request].dict
                   ELSE ProcessorOutput
           ctx == GetContextResult(context, memo)
       IN /\ jingo_context' =
                 [jingo_context EXCEPT ![request] = [has |-> TRUE, dict |-> memo]]
          /\ invoked' =
                 IF HasJingoContext(request) THEN invoked
                 ELSE [invoked EXCEPT ![request] = [p \in Procs |-> @[p] + 1]]
          /\ lastRender' = [called |-> TRUE, request |-> request,
                            context |-> context,
                            context_dict |->
                                Flatten([isContext |-> FALSE, dicts |-> <<>>,
                                         dict |-> ctx])]
    /\ renders' = [renders EXCEPT ![request] = @ + 1]
    /\ UNCHANGED <<processors, templateVars, loaderVars, cacheVars>>

\* env.get_template(template) raises: get_context is never called
RenderToStringRaises(request) ==
    /\ lastRender' = [NoRender EXCEPT !.request = request]
    /\ UNCHANGED <<processors, jingo_context, invoked, renders,
                   templateVars, loaderVars, cacheVars>>

--------------------------------------------------------------------------
(* load_helpers, called by Environment.get_template and from_string *)

Threads == {"t1", "t2"}
Apps == 1..NumApps

\* What load_helpers meets at an application of INSTALLED_APPS:
\*   nopath     import_module(app) has no __path__ (AttributeError)
\*   nohelpers  imp.find_module('helpers', app_path) raises ImportError
\*   ok         app.helpers imports
\*   raises     app.helpers exists and raises while it is imported
\*   reentrant  app.helpers imports, and its body resolves a template
\*              through the shared env (jingo.Template(...), env.get_template)
AppKinds == {"nopath", "nohelpers", "ok", "raises", "reentrant"}
HasHelpers(app) == INSTALLED_APPS[app] \in {"ok", "raises", "reentrant"}

\* jingo.helpers, imported by line 140
DefaultHelpers == 0

Count(module) == Cardinality({i \in 1..Len(importLog) : importLog[i] = module})

\* The interpreter's import lock: no other thread is inside an import.
ImportLockFree(t) == \A u \in Threads \ {t} : pc[u] # "nested"

\* Environment.get_template / Environment.from_string is called
Call(t) ==
    /\ t \in threads
    /\ pc[t] = "idle"
    /\ entries < MaxEntries
    /\ entries' = entries + 1
    /\ pc' = [pc EXCEPT ![t] = "check"]
    /\ UNCHANGED <<INSTALLED_APPS, threads, helpers_loaded, idx, sys_modules,
                   importLog, runs, returned>>
    /\ UNCHANGED <<renderVars, templateVars, cacheVars>>

\* line 136-137: if _helpers_loaded: return
CheckLoaded(t) ==
    /\ pc[t] = "check"
    /\ IF helpers_loaded
       THEN /\ pc' = [pc EXCEPT ![t] = "resolve"]
            /\ returned' = returned + 1
       ELSE /\ pc' = [pc EXCEPT ![t] = "set"]
            /\ UNCHANGED returned
    /\ UNCHANGED <<INSTALLED_APPS, threads, helpers_loaded, idx, sys_modules,
                   importLog, runs, entries>>
    /\ UNCHANGED <<renderVars, templateVars, cacheVars>>

SetLoadedForgotten(t) ==
    /\ pc[t] = "set"
    /\ runs' = runs + 1
    /\ pc' = [pc EXCEPT ![t] = "default"]
    /\ UNCHANGED <<INSTALLED_APPS, threads, helpers_loaded, idx, sys_modules,
                   importLog, entries, returned>>
    /\ UNCHANGED <<renderVars, templateVars, cacheVars>>

\* line 138: _helpers_loaded = True; the import sequence begins
SetLoaded(t) ==
    /\ pc[t] = "set"
    /\ helpers_loaded' = TRUE
    /\ runs' = runs + 1
    /\ pc' = [pc EXCEPT ![t] = "default"]
    /\ UNCHANGED <<INSTALLED_APPS, threads, idx, sys_modules, importLog,
                   entries, returned>>
    /\ UNCHANGED <<renderVars, templateVars, cacheVars>>

\* line 140: from jingo import helpers
ImportDefault(t) ==
    /\ pc[t] = "default"
    /\ ImportLockFree(t)
    /\ IF DefaultHelpers \in sys_modules
       THEN UNCHANGED <<sys_modules, importLog>>
       ELSE /\ importLog' = Append(importLog, DefaultHelpers)
            /\ sys_modules' = sys_modules \cup {DefaultHelpers}
    /\ pc' = [pc EXCEPT ![t] = "loop"]
    /\ idx' = [idx EXCEPT ![t] = 1]
    /\ UNCHANGED <<INSTALLED_APPS, threads, helpers_loaded, runs, entries,
                   returned>>
    /\ UNCHANGED <<renderVars, templateVars, cacheVars>>

AtApp(t, kinds) ==
    /\ pc[t] = "loop"
    /\ idx[t] \in Apps
    /\ INSTALLED_APPS[idx[t]] \in kinds
    /\ ImportLockFree(t)

Continue(t) ==
    /\ pc' = [pc EXCEPT ![t] = "loop"]
    /\ idx' = [idx EXCEPT ![t] = @ + 1]

\* the exception leaves load_helpers
Raise(t) ==
    /\ pc' = [pc EXCEPT ![t] = "raised"]
    /\ returned' = returned + 1
    /\ UNCHANGED idx

SkipNoPathUncaught(t) ==
    /\ AtApp(t, {"nopath"})
    /\ Raise(t)
    /\ UNCHANGED <<INSTALLED_APPS, threads, helpers_loaded, sys_modules,
                   importLog, runs, entries>>
    /\ UNCHANGED <<renderVars, templateVars, cacheVars>>

\* lines 143-146: except AttributeError: continue
SkipNoPath(t) ==
    /\ AtApp(t, {"nopath"})
    /\ Continue(t)
    /\ UNCHANGED <<INSTALLED_APPS, threads, helpers_loaded, sys_modules,
                   importLog, runs, entries, returned>>
    /\ UNCHANGED <<renderVars, templateVars, cacheVars>>

\* lines 148-151: except ImportError: continue
SkipNoHelpers(t) ==
    /\ AtApp(t, {"nohelpers"})
    /\ Continue(t)
    /\ UNCHANGED <<INSTALLED_APPS, threads, helpers_loaded, sys_modules,
                   importLog, runs, entries, returned>>
    /\ UNCHANGED <<renderVars, templateVars, cacheVars>>

\* line 153: import_module('%s.helpers' % app); a module that is already in
\* sys.modules is not run again
ImportHelpers(t) ==
    /\ AtApp(t, {"ok", "reentrant"})
    /\ IF idx[t] \in sys_modules
       THEN /\ Continue(t)
            /\ UNCHANGED <<sys_modules, importLog>>
       ELSE /\ importLog' = Append(importLog, idx[t])
            /\ IF INSTALLED_APPS[idx[t]] = "ok"
               THEN /\ sys_modules' = sys_modules \cup {idx[t]}
                    /\ Continue(t)
               ELSE \* the module's body calls env.get_template: load_helpers
                    \* returns at line 137 and the template is resolved
                    /\ pc' = [pc EXCEPT ![t] = "nested"]
                    /\ UNCHANGED <<sys_modules, idx>>
    /\ UNCHANGED <<INSTALLED_APPS, threads, helpers_loaded, runs, entries,
                   returned>>
    /\ UNCHANGED <<renderVars, templateVars, cacheVars>>

\* the template of the module's body is resolved and the import completes
NestedReturn(t) ==
    /\ pc[t] = "nested"
    /\ sys_modules' = sys_modules \cup {idx[t]}
    /\ Continue(t)
    /\ UNCHANGED <<INSTALLED_APPS, threads, helpers_loaded, importLog, runs,
                   entries, returned>>
    /\ UNCHANGED <<renderVars, templateVars, cacheVars>>

\* line 153 raises: the module's body ran and failed; nothing catches it
ImportHelpersRaises(t) ==
    /\ AtApp(t, {"raises"})
    /\ importLog' = Append(importLog, idx[t])
    /\ Raise(t)
    /\ UNCHANGED <<INSTALLED_APPS, threads, helpers_loaded, sys_modules, runs,
                   entries>>
    /\ UNCHANGED <<renderVars, templateVars, cacheVars>>

\* the for loop is exhausted: load_helpers returns, the template is resolved
FinishLoop(t) ==
    /\ pc[t] = "loop"
    /\ idx[t] = NumApps + 1
    /\ pc' = [pc EXCEPT ![t] = "resolve"]
    /\ returned' = returned + 1
    /\ UNCHANGED <<INSTALLED_APPS, threads, helpers_loaded, idx, sys_modules,
                   importLog, runs, entries>>
    /\ UNCHANGED <<renderVars, templateVars, cacheVars>>

\* super().get_template / from_string returns the template
Return(t) ==
    /\ pc[t] = "resolve"
    /\ pc' = [pc EXCEPT ![t] = "idle"]
    /\ UNCHANGED <<INSTALLED_APPS, threads, helpers_loaded, idx, sys_modules,
                   importLog, runs, entries, returned>>
    /\ UNCHANGED <<renderVars, templateVars, cacheVars>>

\* the exception reaches the caller of get_template / from_string
Propagate(t) ==
    /\ pc[t] = "raised"
    /\ pc' = [pc EXCEPT ![t] = "idle"]
    /\ UNCHANGED <<INSTALLED_APPS, threads, helpers_loaded, idx, sys_modules,
                   importLog, runs, entries, returned>>
    /\ UNCHANGED <<renderVars, templateVars, cacheVars>>

--------------------------------------------------------------------------
(* Register.cached_inclusion_tag *)

\* Python values passed to a tag: ints and strings
PyInt(n) == [isInt |-> TRUE, i |-> n, s |-> ""]
PyStr(str) == [isInt |-> FALSE, i |-> 0, s |-> str]
ArgValues == {PyInt(1), PyStr("1_1")}

Digit(d) ==
    CASE d = 0 -> "0" [] d = 1 -> "1" [] d = 2 -> "2" [] d = 3 -> "3"
      [] d = 4 -> "4" [] d = 5 -> "5" [] d = 6 -> "6" [] d = 7 -> "7"
      [] d = 8 -> "8" [] d = 9 -> "9"

RECURSIVE IntToStr(_)
IntToStr(n) ==
    IF n < 0 THEN "-" \o IntToStr(0 - n)
    ELSE IF n < 10 THEN Digit(n)
    ELSE IntToStr(n \div 10) \o Digit(n % 10)

\* str(a)
Str(a) == IF a.isInt THEN IntToStr(a.i) ELSE a.s

\* sep.join(strs)
RECURSIVE Join(_, _)
Join(sep, strs) ==
    IF strs = <<>> THEN ""
    ELSE IF Len(strs) = 1 THEN strs[1]
    ELSE strs[1] \o sep \o Join(sep, Tail(strs))

\* md5(s).hexdigest(): collision-free on the strings of the model, so the
\* digest is written as a string that names what was hashed
Md5HexDigest(str) == "md5<" \o str \o ">"

\* kw.items(): the keyword arguments in the dict's iteration order
KwNames == {"n"}
KwValues == {PyInt(1)}
KwItems == {<<>>} \cup {<<[k |-> k, v |-> v]>> : k \in KwNames, v \in KwValues}
ArgLists == SeqsUpTo(ArgValues, MaxArgs)

\* lines 194-197: the string that is hashed
Signature(args, kw) ==
    Join("_", << Join("_", [i \in 1..Len(args) |-> Str(args[i])]),
                 Join("_", [i \in 1..Len(kw) |-> kw[i].k \o "_" \o Str(kw[i].v)]) >>)

\* The decorated functions: cached_inclusion_tag(template, key, kwargs)(f)
Tags == {[f |-> "f", key |-> "k", kwargs |-> TRUE],
         [f |-> "g", key |-> "j", kwargs |-> FALSE]}

CacheKeyIgnoresKw(tag, args, kw) ==
    IF tag.kwargs /\ args # <<>>
    THEN tag.key \o "_" \o Md5HexDigest(Signature(args, kw))
    ELSE tag.key

\* lines 193-199: key_
CacheKey(tag, args, kw) ==
    IF tag.kwargs /\ (args # <<>> \/ kw # <<>>)
    THEN tag.key \o "_" \o Md5HexDigest(Signature(args, kw))
    ELSE tag.key

\* env.get_template(template).render(f(*args, **kw)): the text is named by
\* the function and the arguments it was rendered from
RenderedText(tag, args, kw) == [f |-> tag.f, args |-> args, kw |-> kw]

NoCall == [called |-> FALSE, tag |-> CHOOSE tag \in Tags : tag.kwargs,
           args |-> <<>>, kw |-> <<>>, key |-> "", hit |-> FALSE,
           markup |-> [f |-> "", args |-> <<>>, kw |-> <<>>]]

CacheAlwaysMisses(key) == FALSE

\* lines 201-202: cache.get(key_) is not None
CacheHit(key) == key \in DOMAIN cache

\* lines 193-207: wrapper(*args, **kw) returns jinja2.Markup(t).  An entry
\* of the cache keeps, beside the text, how often f was run for it (execs)
\* and how often it was asked for (calls) since it was stored.
Wrapper(tag, args, kw) ==
    /\ wrapperCalls < MaxWrapperCalls
    /\ wrapperCalls' = wrapperCalls + 1
    /\ LET key == CacheKey(tag, args, kw)
           had == key \in DOMAIN cache
       IN IF CacheHit(key)
          THEN /\ cache' = [cache EXCEPT ![key].calls = @ + 1]
               /\ lastCall' = [called |-> TRUE, tag |-> tag, args |-> args,
                               kw |-> kw, key |-> key, hit |-> TRUE,
                               markup |-> cache[key].text]
          ELSE LET t == RenderedText(tag, args, kw)
               IN /\ cache' = [k \in DOMAIN cache \cup {key} |->
                                  IF k = key
                                  THEN [text |-> t,
                                        execs |-> IF had THEN cache[k].execs + 1
                                                  ELSE 1,
                                        calls |-> IF had THEN cache[k].calls + 1
                                                  ELSE 1]
                                  ELSE cache[k]]
                  /\ lastCall' = [called |-> TRUE, tag |-> tag, args |-> args,
                                  kw |-> kw, key |-> key, hit |-> FALSE,
                                  markup |-> t]
    /\ UNCHANGED <<renderVars, templateVars, loaderVars>>

\* f(*args, **kw) or the rendering raises on a miss: nothing is stored
WrapperRaises(tag, args, kw) ==
    /\ wrapperCalls < MaxWrapperCalls
    /\ ~CacheHit(CacheKey(tag, args, kw))
    /\ wrapperCalls' = wrapperCalls + 1
    /\ lastCall' = NoCall
    /\ UNCHANGED cache
    /\ UNCHANGED <<renderVars, templateVars, loaderVars>>

\* the cache drops an entry (expiry and eviction are the cache's own)
Evict(key) ==
    /\ key \in DOMAIN cache
    /\ cache' = [k \in DOMAIN cache \ {key} |-> cache[k]]
    /\ UNCHANGED <<lastCall, wrapperCalls>>
    /\ UNCHANGED <<renderVars, templateVars, loaderVars>>

--------------------------------------------------------------------------
(* Initial states and specifications *)

RenderIdle ==
    /\ jingo_context = [r \in Requests |-> NoAttr]
    /\ invoked = [r \in Requests |-> [p \in Procs |-> 0]]
    /\ renders = [r \in Requests |-> 0]
    /\ lastRender = NoRender

TemplateIdle ==
    rendered = [called |-> FALSE, context |-> NoContext,
                context_dict |-> EmptyDict]

LoaderIdle ==
    /\ helpers_loaded = FALSE
    /\ pc = [t \in Threads |-> "idle"]
    /\ idx = [t \in Threads |-> 1]
    /\ sys_modules = {}
    /\ importLog = <<>>
    /\ runs = 0
    /\ entries = 0
    /\ returned = 0

CacheIdle ==
    /\ cache = [k \in {} |-> 0]
    /\ lastCall = NoCall
    /\ wrapperCalls = 0

NoProcessors == processors = [p \in Procs |-> EmptyDict]
NoApps == INSTALLED_APPS = [a \in Apps |-> "nopath"] /\ threads = {"t1"}

\* render_to_string, over every setting of the context processors
InitRender ==
    /\ processors \in [Procs -> Dicts]
    /\ RenderIdle /\ TemplateIdle /\ NoApps /\ LoaderIdle /\ CacheIdle

NextRender ==
    \/ \E r \in Requests, c \in ExplicitContexts : RenderToString(r, c)
    \/ \E r \in Requests : RenderToStringRaises(r)

SpecRender == InitRender /\ [][NextRender]_vars

\* Template.render
InitTemplate ==
    NoProcessors /\ RenderIdle /\ TemplateIdle /\ NoApps /\ LoaderIdle /\ CacheIdle

NextTemplate ==
    \E c \in LayeredContexts \cup PlainContexts : TemplateRender(c)

SpecTemplate == InitTemplate /\ [][NextTemplate]_vars

\* load_helpers, over every INSTALLED_APPS
NextLoader ==
    \E t \in Threads :
        \/ Call(t)
        \/ CheckLoaded(t)
        \/ SetLoaded(t)
        \/ ImportDefault(t)
        \/ SkipNoPath(t)
        \/ SkipNoHelpers(t)
        \/ ImportHelpers(t)
        \/ NestedReturn(t)
        \/ ImportHelpersRaises(t)
        \/ FinishLoop(t)
        \/ Return(t)
        \/ Propagate(t)

\* one thread: the calls follow one another
InitLoader ==
    /\ INSTALLED_APPS \in [Apps -> AppKinds]
    /\ threads = {"t1"}
    /\ NoProcessors /\ RenderIdle /\ TemplateIdle /\ LoaderIdle /\ CacheIdle

SpecLoader == InitLoader /\ [][NextLoader]_vars

\* two threads serve requests
InitThreads ==
    /\ INSTALLED_APPS \in [Apps -> AppKinds]
    /\ threads = Threads
    /\ NoProcessors /\ RenderIdle /\ TemplateIdle /\ LoaderIdle /\ CacheIdle

SpecThreads == InitThreads /\ [][NextLoader]_vars

\* cached_inclusion_tag
InitCache ==
    NoProcessors /\ RenderIdle /\ TemplateIdle /\ NoApps /\ LoaderIdle /\ CacheIdle

NextCache ==
    \/ \E tag \in Tags, args \in ArgLists, kw \in KwItems : Wrapper(tag, args, kw)
    \/ \E tag \in Tags, args \in ArgLists, kw \in KwItems : WrapperRaises(tag, args, kw)
    \/ \E key \in DOMAIN cache : Evict(key)

SpecCache == InitCache /\ [][NextCache]_vars

--------------------------------------------------------------------------
(* Properties *)

\* the processors that return key k
Returning(k) == {p \in Procs : k \in DOMAIN processors[p]}
Max(S) == CHOOSE m \in S : \A n \in S : n <= m

C2_ProcessorsOverrideContext ==
    lastRender.called =>
        LET given == IF lastRender.context.given
                     THEN lastRender.context.dict ELSE EmptyDict
            out == lastRender.context_dict
        IN /\ DOMAIN out = DOMAIN given \cup {k \in Keys : Returning(k) # {}}
           /\ \A k \in DOMAIN out :
                 out[k] = IF Returning(k) # {}
                          THEN processors[Max(Returning(k))][k]
                          ELSE given[k]

\* a render where the context and a processor disagree on a key, and where
\* each of them has a key of its own
C2_Witness ==
    /\ lastRender.called
    /\ lastRender.context.given
    /\ \E k \in DOMAIN lastRender.context.dict :
          /\ Returning(k) # {}
          /\ lastRender.context.dict[k] # lastRender.context_dict[k]
    /\ \E k \in DOMAIN lastRender.context.dict : Returning(k) = {}
    /\ lastRender.context_dict # lastRender.context.dict

\* the layers of a Context that hold key k
LayersWith(dicts, k) == {i \in 1..Len(dicts) : k \in DOMAIN dicts[i]}

\* C9: Template.render flattens a Context to the keys that occur in some
\* layer, each with the value of the last layer that holds it; a plain
\* mapping is copied as it is.
C9_FlattenLastLayerWins ==
    rendered.called =>
        LET out == rendered.context_dict
            dicts == rendered.context.dicts
        IN IF rendered.context.isContext
           THEN /\ DOMAIN out = {k \in Keys : LayersWith(dicts, k) # {}}
                /\ \A k \in DOMAIN out : out[k] = dicts[Max(LayersWith(dicts, k))][k]
           ELSE out = rendered.context.dict

\* a Context of two layers that disagree on a key was flattened
C9_Witness ==
    /\ rendered.called
    /\ rendered.context.isContext
    /\ Len(rendered.context.dicts) >= 2
    /\ \E k \in Keys :
          /\ LayersWith(rendered.context.dicts, k) = {1, 2}
          /\ rendered.context.dicts[1][k] # rendered.context.dicts[2][k]
          /\ rendered.context_dict[k] = rendered.context.dicts[2][k]

\* C3: with the calls of load_helpers following one another, the import
\* sequence is begun exactly once: the flag is set from the first call on
\* and never reset, and no module is run a second time by a later call.
C3_LoadHelpersOnce ==
    /\ runs <= 1
    /\ runs >= 1 => helpers_loaded
    /\ returned >= 1 => helpers_loaded /\ runs = 1
    /\ \A m \in Apps \cup {DefaultHelpers} : Count(m) <= 1
    /\ returned >= 1 => Count(DefaultHelpers) = 1

\* load_helpers has returned twice and the sequence ran once
C3_Witness ==
    /\ returned >= 2
    /\ runs = 1
    /\ helpers_loaded
    /\ \E a \in Apps : Count(a) = 1

\* the modules load_helpers runs are run in the order of INSTALLED_APPS
InListOrder ==
    \A i, j \in 1..Len(importLog) : i < j => importLog[i] < importLog[j]

\* C10: an application without a package path or without a helpers module
\* raises nothing and has no helpers module imported; the loop goes on to
\* the applications after it, in list order; the only exception that leaves
\* load_helpers is raised by a helpers module that exists.
C10_LoaderSkipsSilently ==
    /\ \A a \in Apps : ~HasHelpers(a) => Count(a) = 0 /\ a \notin sys_modules
    /\ \A t \in threads :
          pc[t] = "raised" =>
              idx[t] \in Apps /\ INSTALLED_APPS[idx[t]] = "raises"
    /\ \A t \in threads :
          pc[t] = "loop" =>
              \A a \in Apps : a < idx[t] =>
                  /\ INSTALLED_APPS[a] # "raises"
                  /\ HasHelpers(a) <=> a \in sys_modules
    /\ InListOrder

\* the loop is through: it skipped an application and imported a later one
C10_Witness ==
    \E t \in threads :
        /\ pc[t] = "loop"
        /\ idx[t] = NumApps + 1
        /\ \E a, b \in Apps : a < b /\ ~HasHelpers(a) /\ b \in sys_modules

\* C4: whenever get_template or from_string resolves a template, the
\* default helpers module and the helpers module of every application that
\* has one have been imported, each once.
C4_HelpersBeforeTemplates ==
    \A t \in threads :
        pc[t] \in {"resolve", "nested"} =>
            /\ Count(DefaultHelpers) = 1
            /\ \A a \in Apps : HasHelpers(a) => Count(a) = 1

\* C5: with two threads making the first call, the import sequence is
\* begun at most once.
C5_SequenceAtMostOnce == runs <= 1

\* C6: as long as the cache keeps an entry, the decorated function was run
\* and the template rendered once for it, however often the wrapper was
\* called with that key: the call that stores the entry is a miss and
\* returns the text it rendered, every later call is a hit and returns the
\* stored text.
C6_RenderedOncePerEntry ==
    /\ \A k \in DOMAIN cache : cache[k].execs = 1
    /\ (lastCall.called /\ lastCall.key \in DOMAIN cache) =>
          /\ cache[lastCall.key].text = lastCall.markup
          /\ lastCall.hit <=> cache[lastCall.key].calls >= 2
          /\ ~lastCall.hit =>
                lastCall.markup = RenderedText(lastCall.tag, lastCall.args,
                                               lastCall.kw)

\* the second of two calls with the same arguments was a hit
C6_Witness ==
    /\ lastCall.called
    /\ lastCall.hit
    /\ lastCall.key \in DOMAIN cache
    /\ cache[lastCall.key].calls = 2
    /\ cache[lastCall.key].execs = 1
    /\ lastCall.args # <<>>
    /\ lastCall.markup = RenderedText(lastCall.tag, lastCall.args, lastCall.kw)

\* C7: with kwargs true, a call never returns text that was rendered from
\* another argument list.
C7_NoTextOfOtherArguments ==
    (lastCall.called /\ lastCall.tag.kwargs) =>
        lastCall.markup = RenderedText(lastCall.tag, lastCall.args, lastCall.kw)

\* C8: the cache key is the key given to the decorator when kwargs is false
\* or the call has no arguments at all; otherwise it is that key, "_" and
\* the digest of the arguments.
C8_KeyUnmodifiedWithoutArguments ==
    lastCall.called =>
        IF lastCall.tag.kwargs /\ Len(lastCall.args) + Len(lastCall.kw) > 0
        THEN /\ lastCall.key # lastCall.tag.key
             /\ lastCall.key = lastCall.tag.key \o "_"
                    \o Md5HexDigest(Signature(lastCall.args, lastCall.kw))
        ELSE lastCall.key = lastCall.tag.key

\* a call with keyword arguments only got a key with a digest
C8_Witness ==
    /\ lastCall.called
    /\ lastCall.tag.kwargs
    /\ lastCall.args = <<>>
    /\ lastCall.kw # <<>>
    /\ lastCall.key # lastCall.tag.key

==========================================================================
